---- MODULE Spec2Model ----
(***************************************************************************)
(* PulseCheck feedback pipeline (damp-sunset-0d05/src/index.ts).            *)
(*                                                                         *)
(* State: the two D1 tables (feedback, aggregated_stats), the workflow     *)
(* runs created by POST /api/feedback with their position in               *)
(* MyWorkflow.run, and the last HTTP exchange of the fetch handler.        *)
(*                                                                         *)
(* JavaScript values are tagged tuples: <<"str", s>> is the string s,      *)
(* <<"null">> is null and <<"undefined">> is undefined.                    *)
(***************************************************************************)
EXTENDS Integers, Sequences, FiniteSets, TLC

VARIABLES feedback, aggregated_stats, runs, lastRequest, lastResponse, lastUpdate

vars == <<feedback, aggregated_stats, runs, lastRequest, lastResponse, lastUpdate>>

\* ------------------------------------------------------------------ bounds

\* Largest number of workflow runs created in one behaviour.
MaxRuns == 2

\* Times the durable-execution host re-invokes a step that threw before it
\* marks the run errored.
MaxRetries == 1

\* ------------------------------------------------------- JavaScript values

Str(s) == <<"str", s>>

Null == <<"null">>

Undefined == <<"undefined">>

\* String(v) as a template literal `${v}` renders it.
ToStr(v) == IF v[1] = "str" THEN v[2] ELSE v[1]

\* What D1's bind() accepts: strings and null; undefined raises D1_TYPE_ERROR.
Bindable(v) == v # Undefined

\* ----------------------------------------------------------------- inputs

Sources == {"Discord", "GitHub"}

\* A content of n characters; the character at position i depends on i, so
\* that a prefix differs from every other slice of the same length.
MkContent(n) == [i \in 1..n |-> <<"a", "b", "c", "d", "e", "f", "g">>[(i % 7) + 1]]

\* Lengths around the truncation point of check-urgency, and the 150 of the
\* end-to-end scenario.
ContentLengths == {3, 100, 101, 150}

Contents == {MkContent(n) : n \in ContentLengths}

\* What request.json() yields when it does not throw: {source, content}.
Params(source, content) == [source |-> source, content |-> content]

\* A request body: json says whether the text is JSON; when it is, value is
\* what it parses to.
JsonBody(params) == [json |-> TRUE, value |-> params]

NoBody == [json |-> FALSE, value |-> Params("", <<>>)]

\* The body "not json" without the quotes: text that is not JSON.
NotJson == [json |-> FALSE, value |-> Params("not json", <<>>)]

\* Bodies of POST /api/feedback: every well-formed submission, and NotJson.
Bodies == {JsonBody(Params(s, c)) : s \in Sources, c \in Contents} \cup {NotJson}

\* The body the concurrency scenarios submit.
OneBody == {JsonBody(Params("Discord", MkContent(3)))}

\* request.json(): ok = FALSE is a thrown SyntaxError.
RequestJson(body) == [ok |-> body.json, value |-> body.value]

\* ---------------------------------------------- the generation capability

\* Texts the model can return in response.response.
T_Prose == "Sure! Here is the analysis: negative, bug, high"

T_Bug == "{\"sentiment\":\"negative\",\"category\":\"bug\",\"urgency\":\"high\",\"reason\":\"test\"}"

T_Feature == "{\"sentiment\":\"positive\",\"category\":\"feature\",\"urgency\":\"low\",\"reason\":\"nice\"}"

T_NoReason == "{\"sentiment\":\"neutral\",\"category\":\"question\",\"urgency\":\"medium\"}"

T_NoCategory == "{\"sentiment\":\"neutral\",\"urgency\":\"low\",\"reason\":\"r\"}"

T_NullCategory == "{\"sentiment\":\"negative\",\"category\":null,\"urgency\":\"high\",\"reason\":\"r\"}"

T_Null == "null"

T_Number == "42"

T_String == "\"bug\""

AITexts == {T_Prose, T_Bug, T_Feature, T_NoReason, T_NoCategory,
            T_NullCategory, T_Null, T_Number, T_String}

\* The texts the concurrency scenarios draw from: two categories and a null.
FewTexts == {T_Bug, T_Feature, T_NullCategory}

\* A parsed JSON value as the steps see it: t is "object", "null" or
\* "primitive"; the four fields hold what property access yields on an
\* object (undefined for a missing key).
Obj(s, c, u, r) == [t |-> "object", sentiment |-> s, category |-> c, urgency |-> u, reason |-> r]

JsNull == [t |-> "null", sentiment |-> Undefined, category |-> Undefined,
           urgency |-> Undefined, reason |-> Undefined]

JsPrimitive == [t |-> "primitive", sentiment |-> Undefined, category |-> Undefined,
                urgency |-> Undefined, reason |-> Undefined]

\* JSON.parse(text): ok = FALSE is a thrown SyntaxError.
JSONParse(text) ==
    CASE text = T_Bug -> [ok |-> TRUE, value |-> Obj(Str("negative"), Str("bug"), Str("high"), Str("test"))]
      [] text = T_Feature -> [ok |-> TRUE, value |-> Obj(Str("positive"), Str("feature"), Str("low"), Str("nice"))]
      [] text = T_NoReason -> [ok |-> TRUE, value |-> Obj(Str("neutral"), Str("question"), Str("medium"), Undefined)]
      [] text = T_NoCategory -> [ok |-> TRUE, value |-> Obj(Str("neutral"), Undefined, Str("low"), Str("r"))]
      [] text = T_NullCategory -> [ok |-> TRUE, value |-> Obj(Str("negative"), Null, Str("high"), Str("r"))]
      [] text = T_Null -> [ok |-> TRUE, value |-> JsNull]
      [] text = T_Number -> [ok |-> TRUE, value |-> JsPrimitive]
      [] text = T_String -> [ok |-> TRUE, value |-> JsPrimitive]
      [] OTHER -> [ok |-> FALSE, value |-> JsNull]

\* A faulty variant of Fallback: another reason text, "parse failure".
Fallback_ParseFailure == Obj(Str("neutral"), Str("unknown"), Str("low"), Str("parse failure"))

\* The fallback object of the catch block.
Fallback == Obj(Str("neutral"), Str("unknown"), Str("low"), Str("Could not parse AI response"))

\* The try/catch around JSON.parse in 'analyze-feedback'.
ParseAIResponse(text) == IF JSONParse(text).ok THEN JSONParse(text).value ELSE Fallback

\* ------------------------------------------------------------ the D1 store

\* INSERT INTO feedback (source, content, sentiment, category, urgency): the
\* store assigns the next id. The column `by` is history, not data: the run
\* whose 'store-feedback' step inserted the row.
InsertFeedback(tbl, source, content, a, by) ==
    Append(tbl, [id |-> Len(tbl) + 1, source |-> source, content |-> content,
                 sentiment |-> a.sentiment, category |-> a.category,
                 urgency |-> a.urgency, by |-> by])

\* SELECT COUNT(*) FROM feedback WHERE category = ?  -- in SQL a NULL on
\* either side of = matches nothing.
CountCategory(tbl, c) ==
    Cardinality({i \in DOMAIN tbl : c # Null /\ tbl[i].category # Null /\ tbl[i].category = c})

\* JSON.stringify of the row {count: n} that first() returns.
JSONStringify(n) == "{\"count\":" \o ToString(n) \o "}"

\* `category_${analysis.category}`
StatKey(c) == "category_" \o ToStr(c)

\* A faulty variant of SelectId: the subquery never finds the row (id NULL).
SelectId_Null(tbl, key) == 0

\* (SELECT id FROM aggregated_stats WHERE stat_type = ?): the id of a row
\* with that key, 0 standing for NULL when there is none.
SelectId(tbl, key) ==
    IF \E row \in tbl : row.stat_type = key
    THEN CHOOSE i \in {row.id : row \in tbl} :
           /\ \E row \in tbl : row.id = i /\ row.stat_type = key
           /\ \A row \in tbl : row.stat_type = key => i <= row.id
    ELSE 0

\* The id a row inserted with id NULL gets: one more than the largest.
NextId(tbl) ==
    IF tbl = {} THEN 1
    ELSE 1 + CHOOSE m \in {row.id : row \in tbl} : \A row \in tbl : row.id <= m

\* A faulty variant of UpsertStat: a plain INSERT with a store-assigned id.
UpsertStat_Insert(tbl, key, value) ==
    tbl \cup {[id |-> NextId(tbl), stat_type |-> key, stat_value |-> value]}

\* INSERT OR REPLACE INTO aggregated_stats (id, stat_type, stat_value)
\* VALUES ((SELECT id ...), ?, ?): a row with the same primary key is
\* deleted before the new row goes in.
UpsertStat(tbl, key, value) ==
    LET sel == SelectId(tbl, key)
        id == IF sel = 0 THEN NextId(tbl) ELSE sel
    IN  {row \in tbl : row.id # id} \cup {[id |-> id, stat_type |-> key, stat_value |-> value]}

\* ------------------------------------------------------------ check-urgency

\* A faulty variant of Substring: substring(1, n), dropping the first character.
Substring_FromOne(s, n) == SubSeq(s, 2, IF Len(s) < n THEN Len(s) ELSE n)

\* substring(0, n)
Substring(s, n) == SubSeq(s, 1, IF Len(s) < n THEN Len(s) ELSE n)

ExcerptLength == 100

\* The template literal of the message, as its pieces in order (the leading
\* siren emoji belongs to the first piece).
AlertMessage(category, source) ==
    <<"High urgency ", ToStr(category), " detected from ", source>>

\* The callback of step 'check-urgency'.
CheckUrgency(a, source, content) ==
    IF a.urgency = Str("high")
    THEN [alert |-> TRUE, message |-> AlertMessage(a.category, source),
          content |-> Substring(content, ExcerptLength)]
    ELSE [alert |-> FALSE]

\* ------------------------------------- history of 'update-stats' executions

\* lastUpdate remembers the most recent execution of 'update-stats' that
\* ran whole with no feedback INSERT between its COUNT query and its INSERT
\* OR REPLACE: the key it wrote, the value it stored and the number of rows
\* of aggregated_stats right after it. counted holds the runs whose COUNT
\* query has run with no feedback INSERT since; fresh holds those of them
\* whose COUNT query, for the remembered key, ran after the remembered
\* write; again says the remembered execution was itself in fresh. Any
\* feedback INSERT, and any other write to aggregated_stats, forgets.
NoUpdate == [key |-> "", value |-> "", nrows |-> 0, counted |-> {}, fresh |-> {},
             again |-> FALSE]

Counted(u, r, key) ==
    [u EXCEPT !.counted = @ \cup {r},
              !.fresh = IF u.key = key /\ u.key # "" THEN @ \cup {r} ELSE @ \ {r}]

Upserted(u, r, key, value, tbl) ==
    IF r \in u.counted
    THEN [key |-> key, value |-> value, nrows |-> Cardinality(tbl),
          counted |-> u.counted \ {r}, fresh |-> {}, again |-> r \in u.fresh]
    ELSE [NoUpdate EXCEPT !.counted = u.counted]

\* ------------------------------------------------- the workflow (one run)

StepOrder == <<"analyze-feedback", "store-feedback", "update-stats", "check-urgency">>

NoAnalysis == [t |-> "pending", sentiment |-> Undefined, category |-> Undefined,
               urgency |-> Undefined, reason |-> Undefined]

NoAlert == [pending |-> TRUE]

\* MY_WORKFLOW.create({params: body}): a run about to enter its first step.
\* request is the request that created it and aiText the text the generation
\* capability returned to it (both history); done is the host's checkpoint log: the steps that have returned, in order.
NewRun(params, request) ==
    [request |-> request, source |-> params.source, content |-> params.content,
     pc |-> "analyze-feedback", aiText |-> "", analysis |-> NoAnalysis, categoryCount |-> -1,
     alert |-> NoAlert, retries |-> 0, done |-> <<>>, failed |-> "none"]

\* A step callback returned: the host checkpoints it and the run moves on.
Returned(run, step, next) ==
    [run EXCEPT !.pc = next, !.retries = 0, !.done = Append(@, step)]

\* A step callback threw: the host re-invokes that step from its start, or
\* marks the run errored once the retries are used up.
Thrown(run, step) ==
    IF run.retries < MaxRetries
    THEN [run EXCEPT !.pc = step, !.retries = @ + 1]
    ELSE [run EXCEPT !.pc = "errored", !.failed = step]

At(r, pc) == r \in DOMAIN runs /\ runs[r].pc = pc

\* Step 1, AI.run returned `text` in response.response.
AnalyzeFeedback(r, texts) ==
    /\ At(r, "analyze-feedback")
    /\ \E text \in texts :
         runs' = [runs EXCEPT ![r] =
                    Returned([@ EXCEPT !.aiText = text, !.analysis = ParseAIResponse(text)],
                             "analyze-feedback", "store-feedback")]
    /\ UNCHANGED <<feedback, aggregated_stats, lastRequest, lastResponse, lastUpdate>>

\* Step 1, AI.run itself threw (line 21 is outside the try block).
AnalyzeFeedbackAIThrows(r) ==
    /\ At(r, "analyze-feedback")
    /\ runs' = [runs EXCEPT ![r] = Thrown(@, "analyze-feedback")]
    /\ UNCHANGED <<feedback, aggregated_stats, lastRequest, lastResponse, lastUpdate>>

\* bind(source, content, analysis.sentiment, analysis.category,
\* analysis.urgency) evaluates without throwing: analysis is not null (a
\* property read on null is a TypeError) and no bound value is undefined.
CanBind(a) ==
    /\ a.t # "null"
    /\ Bindable(a.sentiment) /\ Bindable(a.category) /\ Bindable(a.urgency)

\* Step 2, the INSERT ran.
StoreFeedback(r) ==
    /\ At(r, "store-feedback")
    /\ CanBind(runs[r].analysis)
    /\ feedback' = InsertFeedback(feedback, runs[r].source, runs[r].content,
                                  runs[r].analysis, r)
    /\ runs' = [runs EXCEPT ![r] = Returned(@, "store-feedback", "update-stats")]
    /\ lastUpdate' = NoUpdate
    /\ UNCHANGED <<aggregated_stats, lastRequest, lastResponse>>

\* Step 2, building the statement threw.
StoreFeedbackBindThrows(r) ==
    /\ At(r, "store-feedback")
    /\ ~CanBind(runs[r].analysis)
    /\ runs' = [runs EXCEPT ![r] = Thrown(@, "store-feedback")]
    /\ UNCHANGED <<feedback, aggregated_stats, lastRequest, lastResponse, lastUpdate>>

\* Step 2, the store failed: before the INSERT was applied, or after it was
\* applied and before the step's result was checkpointed.
StoreFeedbackStoreFails(r) ==
    /\ At(r, "store-feedback")
    /\ CanBind(runs[r].analysis)
    /\ \E applied \in BOOLEAN :
         feedback' = IF applied
                     THEN InsertFeedback(feedback, runs[r].source, runs[r].content,
                                         runs[r].analysis, r)
                     ELSE feedback
    /\ runs' = [runs EXCEPT ![r] = Thrown(@, "store-feedback")]
    /\ lastUpdate' = IF feedback' = feedback THEN lastUpdate ELSE NoUpdate
    /\ UNCHANGED <<aggregated_stats, lastRequest, lastResponse>>

\* Step 3, first statement: the COUNT query.
UpdateStatsCount(r) ==
    /\ At(r, "update-stats")
    /\ runs' = [runs EXCEPT ![r].pc = "update-stats:upsert",
                            ![r].categoryCount =
                                CountCategory(feedback, runs[r].analysis.category)]
    /\ lastUpdate' = Counted(lastUpdate, r, StatKey(runs[r].analysis.category))
    /\ UNCHANGED <<feedback, aggregated_stats, lastRequest, lastResponse>>

\* Step 3, second statement: the INSERT OR REPLACE.
UpdateStatsUpsert(r) ==
    /\ At(r, "update-stats:upsert")
    /\ aggregated_stats' = UpsertStat(aggregated_stats,
                                      StatKey(runs[r].analysis.category),
                                      JSONStringify(runs[r].categoryCount))
    /\ runs' = [runs EXCEPT ![r] = Returned(@, "update-stats", "check-urgency")]
    /\ lastUpdate' = Upserted(lastUpdate, r, StatKey(runs[r].analysis.category),
                              JSONStringify(runs[r].categoryCount), aggregated_stats')
    /\ UNCHANGED <<feedback, lastRequest, lastResponse>>

\* Step 3, the store failed on the COUNT query.
UpdateStatsCountFails(r) ==
    /\ At(r, "update-stats")
    /\ runs' = [runs EXCEPT ![r] = Thrown(@, "update-stats")]
    /\ UNCHANGED <<feedback, aggregated_stats, lastRequest, lastResponse, lastUpdate>>

\* Step 3, the store failed on the INSERT OR REPLACE, before or after it
\* was applied.
UpdateStatsUpsertFails(r) ==
    /\ At(r, "update-stats:upsert")
    /\ \E applied \in BOOLEAN :
         /\ aggregated_stats' =
               IF applied
               THEN UpsertStat(aggregated_stats, StatKey(runs[r].analysis.category),
                               JSONStringify(runs[r].categoryCount))
               ELSE aggregated_stats
         /\ lastUpdate' =
               IF applied
               THEN Upserted(lastUpdate, r, StatKey(runs[r].analysis.category),
                             JSONStringify(runs[r].categoryCount), aggregated_stats')
               ELSE lastUpdate
    /\ runs' = [runs EXCEPT ![r] = Thrown(@, "update-stats")]
    /\ UNCHANGED <<feedback, lastRequest, lastResponse>>

\* Step 4.
CheckUrgencyStep(r) ==
    /\ At(r, "check-urgency")
    /\ runs' = [runs EXCEPT ![r] =
                  Returned([@ EXCEPT !.alert = CheckUrgency(runs[r].analysis, runs[r].source,
                                                            runs[r].content)],
                           "check-urgency", "complete")]
    /\ UNCHANGED <<feedback, aggregated_stats, lastRequest, lastResponse, lastUpdate>>

\* -------------------------------------------------------- the fetch handler

CorsHeaders == [origin |-> "*", methods |-> "GET, POST, OPTIONS", headers |-> "Content-Type"]

\* A Response the handler returned. type is the body's kind.
Response(status, type, body) ==
    [outcome |-> "response", status |-> status, headers |-> CorsHeaders,
     type |-> type, body |-> body]

\* The handler's promise rejected: an exception left fetch().
Escaped == [outcome |-> "exception"]

\* A request: fails says that the binding the route calls (the store, or
\* MY_WORKFLOW.create) throws while serving it.
Request(method, path, body, fails) ==
    [method |-> method, path |-> path, body |-> body, fails |-> fails]

NoRequest == Request("", "", NoBody, FALSE)

FeedbackLimit == 50

\* SELECT * FROM feedback ORDER BY created_at DESC LIMIT 50: the stored
\* columns, newest first (created_at grows with the id).
RecentFeedback(tbl) ==
    [i \in 1..(IF Len(tbl) < FeedbackLimit THEN Len(tbl) ELSE FeedbackLimit) |->
       LET row == tbl[Len(tbl) + 1 - i]
       IN  [id |-> row.id, source |-> row.source, content |-> row.content,
            sentiment |-> row.sentiment, category |-> row.category,
            urgency |-> row.urgency]]

\* SELECT col, COUNT(*) as count FROM feedback GROUP BY col
GroupCount(tbl, col) ==
    {[value |-> v, count |-> Cardinality({i \in DOMAIN tbl : tbl[i][col] = v})] :
       v \in {tbl[i][col] : i \in DOMAIN tbl}}

\* Lines 110-112.
Options ==
    /\ \E path \in {"/api/feedback", "/"} :
         lastRequest' = Request("OPTIONS", path, NoBody, FALSE)
    /\ lastResponse' = Response(200, "empty", "")
    /\ UNCHANGED <<feedback, aggregated_stats, runs, lastUpdate>>

\* The response of the catch block of POST /api/feedback.
InvalidRequestBody == Response(400, "json", [error |-> "Invalid request body"])

\* A faulty variant of Accepted: the run is created whether or not the body parsed.
Accepted_BeforeParse(parsed, createFails) == ~createFails

\* Whether the try block of POST /api/feedback reaches its return: neither
\* request.json() nor MY_WORKFLOW.create threw.
Accepted(parsed, createFails) == parsed.ok /\ ~createFails

\* Lines 115-133. room bounds the runs a behaviour creates.
PostFeedback(bodies, room) ==
    \E body \in bodies, createFails \in BOOLEAN :
      LET parsed == RequestJson(body)
      IN  /\ parsed.ok => room
          /\ createFails => parsed.ok
          /\ lastRequest' = Request("POST", "/api/feedback", body, createFails)
          /\ IF Accepted(parsed, createFails)
             THEN /\ runs' = Append(runs, NewRun(parsed.value, lastRequest'))
                  /\ lastResponse' = Response(200, "json",
                                              [success |-> TRUE, workflowId |-> Len(runs) + 1])
             ELSE /\ runs' = runs
                  /\ lastResponse' = InvalidRequestBody
          /\ UNCHANGED <<feedback, aggregated_stats, lastUpdate>>

\* Lines 136-142: no try/catch around the query.
GetFeedback ==
    /\ \E storeFails \in BOOLEAN :
         /\ lastRequest' = Request("GET", "/api/feedback", NoBody, storeFails)
         /\ lastResponse' = IF storeFails THEN Escaped
                            ELSE Response(200, "json", RecentFeedback(feedback))
    /\ UNCHANGED <<feedback, aggregated_stats, runs, lastUpdate>>

\* Lines 145-163: no try/catch around the three queries.
GetStats ==
    /\ \E storeFails \in BOOLEAN :
         /\ lastRequest' = Request("GET", "/api/stats", NoBody, storeFails)
         /\ lastResponse' =
               IF storeFails THEN Escaped
               ELSE Response(200, "json",
                             [categories |-> GroupCount(feedback, "category"),
                              sentiments |-> GroupCount(feedback, "sentiment"),
                              urgency |-> GroupCount(feedback, "urgency")])
    /\ UNCHANGED <<feedback, aggregated_stats, runs, lastUpdate>>

\* Lines 166-170.
GetDashboard ==
    /\ lastRequest' = Request("GET", "/", NoBody, FALSE)
    /\ lastResponse' = Response(200, "html", "getDashboardHTML()")
    /\ UNCHANGED <<feedback, aggregated_stats, runs, lastUpdate>>

\* Line 172.
NotFound ==
    /\ \E route \in {<<"GET", "/nope">>, <<"POST", "/api/stats">>} :
         lastRequest' = Request(route[1], route[2], NoBody, FALSE)
    /\ lastResponse' = Response(404, "text", "Not Found")
    /\ UNCHANGED <<feedback, aggregated_stats, runs, lastUpdate>>

\* ------------------------------------------------------------ specification

Init ==
    /\ feedback = <<>>
    /\ aggregated_stats = {}
    /\ runs = <<>>
    /\ lastRequest = NoRequest
    /\ lastResponse = Response(0, "none", "")
    /\ lastUpdate = NoUpdate

\* The steps of run r, each callback returning.
StepReturns(r, texts) ==
    \/ AnalyzeFeedback(r, texts)
    \/ StoreFeedback(r)
    \/ UpdateStatsCount(r)
    \/ UpdateStatsUpsert(r)
    \/ CheckUrgencyStep(r)

\* The steps of run r, each callback throwing.
StepThrows(r) ==
    \/ AnalyzeFeedbackAIThrows(r)
    \/ StoreFeedbackBindThrows(r)
    \/ StoreFeedbackStoreFails(r)
    \/ UpdateStatsCountFails(r)
    \/ UpdateStatsUpsertFails(r)

\* Concurrent runs: up to MaxRuns submissions of one body, classified as
\* one of two categories or with a null category, their steps interleaving
\* freely, every statement of every step succeeding.
Next ==
    \/ \E r \in 1..MaxRuns : StepReturns(r, FewTexts)
    \/ PostFeedback(OneBody, Len(runs) < MaxRuns)

Spec == Init /\ [][Next]_vars

\* One submission: every body, every text the generation capability can
\* return, every failure of the store and of the generation capability with
\* the host's retries, every route of the fetch handler.
NextSingle ==
    \/ StepReturns(1, AITexts)
    \/ StepThrows(1)
    \/ PostFeedback(Bodies, runs = <<>>)
    \/ GetFeedback
    \/ GetStats
    \/ GetDashboard
    \/ Options
    \/ NotFound

SpecSingle == Init /\ [][NextSingle]_vars

\* ------------------------------------------------------------------ claims

\* The runs whose step `step` has returned.
Past(step) == {r \in DOMAIN runs : \E i \in DOMAIN runs[r].done : runs[r].done[i] = step}

Populated(v) == v # Null /\ v # Undefined

\* C1: whatever text the generation capability returns, the classification
\* that 'analyze-feedback' hands to the later steps is an object whose
\* sentiment, category, urgency and reason are all populated (neither null
\* nor undefined).
C1_ClassificationPopulated ==
    \A r \in Past("analyze-feedback") :
      /\ runs[r].analysis.t = "object"
      /\ Populated(runs[r].analysis.sentiment)
      /\ Populated(runs[r].analysis.category)
      /\ Populated(runs[r].analysis.urgency)
      /\ Populated(runs[r].analysis.reason)

\* C2: the classifier step never fails the pipeline: 'analyze-feedback' is
\* never re-invoked after a throw and never the step a run errored on (a
\* throwing generation call yields the default classification instead).
C2_ClassifierNeverThrows ==
    \A r \in DOMAIN runs :
      /\ runs[r].failed # "analyze-feedback"
      /\ runs[r].pc = "analyze-feedback" => runs[r].retries = 0

IsPrefixOfLength(p, content, n) ==
    /\ Len(p) = (IF Len(content) < n THEN Len(content) ELSE n)
    /\ \A i \in 1..Len(p) : p[i] = content[i]

Names(message, s) == \E i \in DOMAIN message : message[i] = s

\* The alert payload of run r is the one for a high urgency, the truncated
\* content being in the field named `field`.
HighAlert(r, field) ==
    /\ runs[r].alert.alert = TRUE
    /\ DOMAIN runs[r].alert = {"alert", "message", field}
    /\ Names(runs[r].alert.message, ToStr(runs[r].analysis.category))
    /\ Names(runs[r].alert.message, runs[r].source)
    /\ IsPrefixOfLength(runs[r].alert[field], runs[r].content, 100)

NoAlertPayload(r) ==
    /\ runs[r].alert.alert = FALSE
    /\ DOMAIN runs[r].alert = {"alert"}

RowsOf(c) == Cardinality({i \in DOMAIN feedback : feedback[i].category = Str(c)})

\* The stat_value stored under key, "" when no row has that key.
StoredValue(tbl, key) ==
    IF \E row \in tbl : row.stat_type = key
    THEN (CHOOSE row \in tbl : row.stat_type = key).stat_value
    ELSE ""

Categories == {"bug", "feature"}

\* C5: once every run has completed, the value stored under category_<c>
\* is the number of feedback rows whose category is c, however the steps of
\* the runs interleaved.
C5_NoDrift ==
    (runs # <<>> /\ \A r \in DOMAIN runs : runs[r].pc = "complete") =>
      \A c \in Categories :
        RowsOf(c) > 0 =>
          StoredValue(aggregated_stats, "category_" \o c) = "{\"count\":" \o ToString(RowsOf(c)) \o "}"

\* Run r leaves the INSERT OR REPLACE of 'update-stats' in this step.
LeavesUpsert(r) ==
    /\ r \in DOMAIN runs
    /\ runs[r].pc = "update-stats:upsert"
    /\ runs'[r].pc # "update-stats:upsert"

\* C6: an execution of 'update-stats' that follows another one for the same
\* category immediately (its COUNT query ran after the other's write, with
\* no feedback insert and no other write to aggregated_stats in between)
\* leaves the stored value under category_<category> and the number of
\* aggregated_stats rows as the first execution left them.
C6_UpdateStatsIdempotent ==
    [][\A r \in lastUpdate.fresh :
         LeavesUpsert(r) =>
           /\ StoredValue(aggregated_stats', lastUpdate.key) = lastUpdate.value
           /\ Cardinality(aggregated_stats') = lastUpdate.nrows]_vars

\* An execution of 'update-stats' immediately repeated an earlier one for
\* the same key.
C6_Witness ==
    /\ lastUpdate.again
    /\ lastUpdate.value = "{\"count\":2}"
    /\ StoredValue(aggregated_stats, lastUpdate.key) = lastUpdate.value

\* No two rows of aggregated_stats have the same stat_type.
OneRowPerKey ==
    \A a \in aggregated_stats, b \in aggregated_stats : a.stat_type = b.stat_type => a = b

\* An INSERT OR REPLACE that was applied replaced the row of its key when
\* there was one (same number of rows, same id) and added one row when
\* there was none; every row of another key is kept.
ReplacesOrInserts ==
    \A r \in DOMAIN runs :
      (LeavesUpsert(r) /\ runs'[r].pc = "check-urgency") =>
        LET key == "category_" \o ToStr(runs[r].analysis.category)
            old == {row \in aggregated_stats : row.stat_type = key}
            new == {row \in aggregated_stats' : row.stat_type = key}
        IN  /\ {row \in aggregated_stats' : row.stat_type # key}
                 = {row \in aggregated_stats : row.stat_type # key}
            /\ Cardinality(new) = 1
            /\ old # {} => {row.id : row \in new} = {row.id : row \in old}
            /\ Cardinality(aggregated_stats') =
                 Cardinality(aggregated_stats) + (IF old = {} THEN 1 ELSE 0)

\* C7: aggregated_stats holds at most one row per stat_type in every
\* reachable state, and every 'update-stats' replaces the row of its key
\* when there is one and inserts a row only when there is none.
C7_OneRowPerStatKey == []OneRowPerKey /\ [][ReplacesOrInserts]_vars

\* Two runs of the same category have both written their count and the
\* table holds the one row of that key.
C7_Witness ==
    \E r \in Past("update-stats"), q \in Past("update-stats") :
      /\ r # q
      /\ runs[r].analysis.category = runs[q].analysis.category
      /\ Cardinality(aggregated_stats) = 1

\* The last request was a POST /api/feedback whose body is not JSON.
UnparseablePost ==
    /\ lastRequest.method = "POST"
    /\ lastRequest.path = "/api/feedback"
    /\ ~lastRequest.body.json

\* C8: a POST /api/feedback whose body is not JSON is answered 400 with
\* {error: "Invalid request body"}; no run was created by such a request,
\* and every feedback row was inserted by a run that a request with a JSON
\* body created.
C8_UnparseableBodyRejected ==
    /\ UnparseablePost =>
         /\ lastResponse.outcome = "response"
         /\ lastResponse.status = 400
         /\ lastResponse.body = [error |-> "Invalid request body"]
    /\ \A r \in DOMAIN runs : runs[r].request.body.json
    /\ \A i \in DOMAIN feedback :
         feedback[i].by \in DOMAIN runs /\ runs[feedback[i].by].request.body.json

\* A body that is not JSON was rejected while an accepted submission had
\* already stored its row.
C8_Witness ==
    /\ UnparseablePost
    /\ lastResponse.status = 400
    /\ feedback # <<>>

\* C9: when the store fails during GET /api/feedback or GET /api/stats the
\* handler still returns a response: JSON, a status outside 200..299, and
\* the cross-origin headers.
C9_ReadErrorIsJsonResponse ==
    (/\ lastRequest.method = "GET"
     /\ lastRequest.path \in {"/api/feedback", "/api/stats"}
     /\ lastRequest.fails) =>
      /\ lastResponse.outcome = "response"
      /\ lastResponse.type = "json"
      /\ lastResponse.status \notin 200..299
      /\ lastResponse.headers = CorsHeaders

IsPrefix(p, q) == Len(p) <= Len(q) /\ \A i \in 1..Len(p) : p[i] = q[i]

\* C10: the steps of a run return in the order analyze-feedback,
\* store-feedback, update-stats, check-urgency, and the count a run has read
\* for its INSERT OR REPLACE is at least 1 and was read with the run's own
\* feedback row in the table.
C10_OrderedAndCountsOwnRow ==
    \A r \in DOMAIN runs :
      /\ IsPrefix(runs[r].done, StepOrder)
      /\ (runs[r].pc = "update-stats:upsert" \/ r \in Past("update-stats")) =>
           /\ \E i \in DOMAIN feedback : feedback[i].by = r
           /\ runs[r].categoryCount >= 1

\* The feedback rows that run r's 'store-feedback' step inserted.
RowsBy(r) == {i \in DOMAIN feedback : feedback[i].by = r}

\* C11: a FeedbackRecord is created once per submission: every run that has
\* reached Complete has exactly one feedback row, also when the host
\* re-invoked 'store-feedback' after it threw or after the INSERT had been
\* applied and the step's result was never checkpointed.
C11_OneRowPerCompletedRun ==
    \A r \in DOMAIN runs :
      runs[r].pc = "complete" => Cardinality(RowsBy(r)) = 1

====
